---- MODULE Spec2Model ----
(***************************************************************************)
(* Model of the directory metadata gatherer GenerateJsonMetaData of        *)
(* snipets/side_scripts/dir_to_json/dir_to_json.py (the same class is      *)
(* repeated in img_to_ascii_art.py).                                       *)
(*                                                                         *)
(* Python strings are modelled as sequences of one-character strings, so   *)
(* that endswith, split, os.path.basename, os.path.join and json.loads     *)
(* are computed character by character.                                    *)
(***************************************************************************)
EXTENDS Integers, Sequences, FiniteSets, TLC

\* ---------------------------------------------------------------- bounds
\* Largest number of children of the scanned directory.
MaxChildren == 2
\* Largest number of calls of one GenerateJsonMetaData instance.
MaxCalls == 1

\* ------------------------------------------------- instance attributes
key1 == "fileName"
key2 == "fileContent"
key3 == "fileType"
key4 == "fileParentDirectory"
json_name == <<"f","i","l","e","s",".","j","s","o","n">>
minified_json_name == <<"f","i","l","e","s",".","m","i","n",".","j","s","o","n">>

\* --------------------------------------------------- string primitives
\* os.sep on POSIX
sep == "/"

\* str.endswith
endswith(s, suf) ==
    /\ Len(suf) <= Len(s)
    /\ SubSeq(s, Len(s) - Len(suf) + 1, Len(s)) = suf

\* str.startswith
startswith(s, pre) ==
    /\ Len(pre) <= Len(s)
    /\ SubSeq(s, 1, Len(pre)) = pre

\* posixpath.basename: the part after the last separator
os_path_basename(p) ==
    LET slashes == {k \in 1..Len(p) : p[k] = sep}
        last == IF slashes = {} THEN 0
                ELSE CHOOSE k \in slashes : \A j \in slashes : j <= k
    IN  SubSeq(p, last + 1, Len(p))

\* posixpath.join of two components
os_path_join(a, b) ==
    IF startswith(b, <<sep>>) THEN b
    ELSE IF a = <<>> \/ endswith(a, <<sep>>) THEN a \o b
    ELSE a \o <<sep>> \o b

\* str.split(sepchar) with an explicit one-character separator
RECURSIVE split(_, _)
split(s, c) ==
    LET hits == {k \in 1..Len(s) : s[k] = c}
    IN  IF hits = {} THEN <<s>>
        ELSE LET first == CHOOSE k \in hits : \A j \in hits : k <= j
             IN  <<SubSeq(s, 1, first - 1)>> \o split(SubSeq(s, first + 1, Len(s)), c)

\* ------------------------------------------------------------ json.loads
JsonWhitespace == {" ", "\n", "\r", "\t"}
Digits == {"0", "1", "2", "3", "4", "5", "6", "7", "8", "9"}

\* the document with leading and trailing JSON whitespace removed
JsonStrip(s) ==
    LET solid == {k \in 1..Len(s) : s[k] \notin JsonWhitespace}
    IN  IF solid = {} THEN <<>>
        ELSE LET lo == CHOOSE k \in solid : \A j \in solid : k <= j
                 hi == CHOOSE k \in solid : \A j \in solid : j <= k
             IN  SubSeq(s, lo, hi)

\* json.loads on the documents of the model: the literals, an unsigned
\* integer, the empty object and the empty array.  Every other text of the
\* model's alphabet is rejected (json.JSONDecodeError).
JsonLoads(s) ==
    LET b == JsonStrip(s)
    IN  IF b = <<"n","u","l","l">> THEN [ok |-> TRUE, value |-> <<"null">>]
        ELSE IF b = <<"t","r","u","e">> THEN [ok |-> TRUE, value |-> <<"true">>]
        ELSE IF b = <<"f","a","l","s","e">> THEN [ok |-> TRUE, value |-> <<"false">>]
        ELSE IF b = <<"{","}">> THEN [ok |-> TRUE, value |-> <<"object">>]
        ELSE IF b = <<"[","]">> THEN [ok |-> TRUE, value |-> <<"array">>]
        ELSE IF b # <<>> /\ (\A k \in 1..Len(b) : b[k] \in Digits)
                /\ (Len(b) = 1 \/ b[1] # "0")
             THEN [ok |-> TRUE, value |-> <<"number">> \o b]
        ELSE [ok |-> FALSE, value |-> <<>>]

\* ------------------------------------------------------------ environment
\* Child names the scanned directory may hold.
N_txt == <<"a",".","t","x","t">>
N_json == <<"b",".","j","s","o","n">>
N_jsonc == <<"c",".","j","s","o","n","c">>
N_bin == <<"d",".","b","i","n">>
ReservedNames == {json_name, minified_json_name}

\* File texts: the empty file, three lines, and a JSON number followed by
\* a newline.
T_empty == <<>>
T_lines == <<"a","\n","b","\n","c">>
T_num == <<"1","\n">>

\* What os.path.isdir / os.path.isfile tell apart: a directory, a regular
\* file, anything else (broken symlink, device, socket).
Kinds == {"dir", "file", "other"}

\* One child of the directory: its name, its kind and, for a regular file,
\* its text.  A reserved name already present is an output file of an
\* earlier run.
Children ==
    {[name |-> N_txt, kind |-> k, text |-> T_empty] : k \in {"dir", "other"}}
    \cup {[name |-> N_txt, kind |-> "file", text |-> t] : t \in {T_empty, T_lines, T_num}}
    \cup {[name |-> N_json, kind |-> "dir", text |-> T_empty]}
    \cup {[name |-> n, kind |-> "file", text |-> t] : n \in {N_json, N_jsonc}, t \in {T_lines, T_num}}
    \cup {[name |-> N_bin, kind |-> k, text |-> T_empty] : k \in {"file", "other"}}
    \cup {[name |-> n, kind |-> "file", text |-> T_empty] : n \in ReservedNames}

\* The directory: a listing of at most MaxChildren children with distinct
\* names, in the order os.listdir reports them.
Directories ==
    {d \in UNION {[1..n -> Children] : n \in 0..MaxChildren} :
        \A j, k \in 1..Len(d) : d[j].name = d[k].name => j = k}

\* The process starts in /h; the scanned directory is /h/o, which a caller
\* may spell with or without a trailing separator.
StartDir == <<"/","h">>
CwdArgs == {<<"o">>, <<"o","/">>}

\* os.chdir(path) followed by os.getcwd(): the joined path without a
\* trailing separator
os_chdir(cur, path) ==
    LET j == os_path_join(cur, path)
    IN  IF Len(j) > 1 /\ endswith(j, <<sep>>) THEN SubSeq(j, 1, Len(j) - 1) ELSE j

\* ------------------------------------------------------------------ state
VARIABLES
    fs,           \* children of the scanned directory, in listing order
    out,          \* the two output files in that directory
    procCwd,      \* the process working directory (os.getcwd())
    final_list,   \* self.final_list
    old_list,     \* self.final_list as it was when the running call began
    old_out,      \* the two output files as they were when the running call began
    pc,           \* position inside __call__
    cwd,          \* argument of the running (or last) call
    current_cwd,  \* local current_cwd of __call__
    listed,       \* the list os.listdir() returned
    idx,          \* position of the for loop in listed
    err,          \* where the exception of this call was raised, or "none"
    outcome,      \* how the last call ended: "none", "running", "returned", "raised"
    touched,      \* output files opened for writing by this call
    calls,        \* number of finished calls
    planned       \* number of calls the driver makes on the instance

vars == <<fs, out, procCwd, final_list, old_list, old_out, pc, cwd, current_cwd,
          listed, idx, err, outcome, touched, calls, planned>>

\* json_reorganiser.py: the process from its start to its exit
VARIABLES
    r_pc,         \* position in __main__ / main
    r_argv,       \* sys.argv[1:]
    r_file,       \* what the file system holds under the path given
    r_src,        \* src_file
    r_dest,       \* the three destination names of main
    r_data,       \* json_file, the value load_json_file returned
    r_opened,     \* destination paths opened for writing, in order
    r_written,    \* destination paths whose dump completed, in order
    r_log,        \* the steps taken and the messages printed, in order
    r_ret,        \* what main returned: <<>> or <<status>>
    r_status      \* exit status of the process: <<>> or <<status>>

reorgVars == <<r_pc, r_argv, r_file, r_src, r_dest, r_data, r_opened,
               r_written, r_log, r_ret, r_status>>

\* download_batch.py: the module-level loop
VARIABLES
    d_pc,         \* position in the loops
    d_urls,       \* the dictionary urls: the groups and their URL lists
    d_group,      \* position of the outer loop
    d_url,        \* position of the inner loop
    d_requests,   \* the requests.get calls made, in order
    d_saved,      \* list positions whose file was written
    d_failed      \* list positions whose request raised

dlVars == <<d_pc, d_urls, d_group, d_url, d_requests, d_saved, d_failed>>

\* img_to_ascii_art.py: one call of pixels_to_ascii
VARIABLES
    a_pc,         \* "off", "call" or "returned"
    a_image,      \* image.getdata(): the pixels of the grayscale image
    a_invert,     \* the argument invert
    a_out         \* how the call ended and the string it returned

asciiVars == <<a_pc, a_image, a_invert, a_out>>

\* the variables each program leaves alone
notGatherer == <<reorgVars, dlVars, asciiVars>>
notReorganiser == <<vars, dlVars, asciiVars>>
notDownloader == <<vars, reorgVars, asciiVars>>
notConverter == <<vars, reorgVars, dlVars>>
allVars == <<vars, reorgVars, dlVars, asciiVars>>

\* no regular file under the path; no destination names yet
NoFile == [isfile |-> FALSE, readable |-> FALSE, writable |-> FALSE, doc |-> "none"]
NoNames == [sorted |-> <<>>, min |-> <<>>, min_sorted |-> <<>>]

\* the reorganiser and the downloader not started
ReorganiserIdle ==
    /\ r_pc = "off"
    /\ r_argv = <<>>
    /\ r_file = NoFile
    /\ r_src = <<>>
    /\ r_dest = NoNames
    /\ r_data = "unset"
    /\ r_opened = <<>>
    /\ r_written = <<>>
    /\ r_log = <<>>
    /\ r_ret = <<>>
    /\ r_status = <<>>

DownloaderIdle ==
    /\ d_pc = "off"
    /\ d_urls = <<>>
    /\ d_group = 0
    /\ d_url = 0
    /\ d_requests = <<>>
    /\ d_saved = {}
    /\ d_failed = {}

\* pixels_to_ascii not called
ConverterIdle ==
    /\ a_pc = "off"
    /\ a_image = <<>>
    /\ a_invert = FALSE
    /\ a_out = [ok |-> TRUE, str |-> <<>>]

Absent == [state |-> "absent", data |-> <<>>]

Init ==
    /\ fs \in Directories
    /\ out = [pretty |-> IF \E k \in 1..Len(fs) : fs[k].name = json_name
                         THEN [state |-> "old", data |-> <<>>] ELSE Absent,
              min |-> IF \E k \in 1..Len(fs) : fs[k].name = minified_json_name
                      THEN [state |-> "old", data |-> <<>>] ELSE Absent]
    /\ procCwd = StartDir
    /\ final_list = <<>>
    /\ old_list = <<>>
    /\ old_out = out
    /\ pc = "idle"
    /\ cwd = <<>>
    /\ current_cwd = <<>>
    /\ listed = <<>>
    /\ idx = 0
    /\ err = "none"
    /\ outcome = "none"
    /\ touched = {}
    /\ calls = 0
    /\ planned = MaxCalls
    /\ ReorganiserIdle
    /\ DownloaderIdle
    /\ ConverterIdle

\* ------------------------------------------------------------ the gatherer
\* IsReserved with the minified name forgotten
IsReserved_PrettyOnly(i) == i = json_name

\* `i in (self.json_name, self.minified_json_name)`
IsReserved(i) == i \in ReservedNames

\* os.listdir(): the directory's children, then the output files that
\* earlier calls created
Listing ==
    LET names == [k \in 1..Len(fs) |-> fs[k].name]
        had(n) == \E k \in 1..Len(fs) : fs[k].name = n
    IN  names
        \o (IF out.pretty.state # "absent" /\ ~had(json_name) THEN <<json_name>> ELSE <<>>)
        \o (IF out.min.state # "absent" /\ ~had(minified_json_name)
            THEN <<minified_json_name>> ELSE <<>>)

\* what the file system holds under the name i
KindOf(i) ==
    IF \E k \in 1..Len(fs) : fs[k].name = i
    THEN (CHOOSE c \in {fs[k] : k \in 1..Len(fs)} : c.name = i).kind
    ELSE "file"
TextOf(i) ==
    IF \E k \in 1..Len(fs) : fs[k].name = i
    THEN (CHOOSE c \in {fs[k] : k \in 1..Len(fs)} : c.name = i).text
    ELSE <<>>

\* the Entry right after its first two keys are set
EntryHead(c, i) == (key1 :> i) @@ (key4 :> os_path_basename(c))

\* the relative path string of the "path" branches
PathContent(c, i) == os_path_join(os_path_basename(c), i)

\* TxtContent as str.splitlines would give it: no trailing empty string
TxtContent_SplitLines(text) ==
    LET p == split(text, "\n")
    IN  IF Len(p) > 1 /\ Len(p[Len(p)]) = 0 THEN SubSeq(p, 1, Len(p) - 1) ELSE p

\* f.read().split("\n")
TxtContent(text) == split(text, "\n")

\* JsonBranch falling back to the path json.loads was handed
JsonBranch_FullPath(c, i) ==
    LET r == JsonLoads(os_path_join(c, i))
    IN  IF r.ok THEN (key2 :> r.value) @@ (key3 :> "json")
        ELSE (key2 :> os_path_join(c, i)) @@ (key3 :> "path")

\* the .json / .jsonc branch: json.loads is handed the joined path string
JsonBranch(c, i) ==
    LET r == JsonLoads(os_path_join(c, i))
    IN  IF r.ok THEN (key2 :> r.value) @@ (key3 :> "json")
        ELSE (key2 :> PathContent(c, i)) @@ (key3 :> "path")

\* EntryTail with the suffix tested before the kind
EntryTail_SuffixFirst(c, i, kind, text) ==
    IF endswith(i, <<".","t","x","t">>) /\ kind # "other"
    THEN (key2 :> TxtContent(text)) @@ (key3 :> "file")
    ELSE IF kind = "dir" THEN (key2 :> <<>>) @@ (key3 :> "dir")
    ELSE IF kind = "file"
    THEN IF endswith(i, <<".","j","s","o","n">>) \/ endswith(i, <<".","j","s","o","n","c">>)
         THEN JsonBranch(c, i)
         ELSE (key2 :> PathContent(c, i)) @@ (key3 :> "path")
    ELSE (key2 :> <<>>) @@ (key3 :> "Unknown")

\* fileContent and fileType of a child whose reads succeed
EntryTail(c, i, kind, text) ==
    IF kind = "dir" THEN (key2 :> <<>>) @@ (key3 :> "dir")
    ELSE IF kind = "file"
    THEN IF endswith(i, <<".","t","x","t">>)
         THEN (key2 :> TxtContent(text)) @@ (key3 :> "file")
         ELSE IF endswith(i, <<".","j","s","o","n">>) \/ endswith(i, <<".","j","s","o","n","c">>)
         THEN JsonBranch(c, i)
         ELSE (key2 :> PathContent(c, i)) @@ (key3 :> "path")
    ELSE (key2 :> <<>>) @@ (key3 :> "Unknown")

\* the child whose open()/read() can raise: a regular .txt file
ReadsFile(i, kind) == kind = "file" /\ endswith(i, <<".","t","x","t">>)

\* Call without the reset of line 17: the list of the last call is kept
Call_KeepsList(c) ==
    /\ pc = "idle"
    /\ calls < planned
    /\ old_list' = final_list
    /\ old_out' = out
    /\ final_list' = final_list
    /\ current_cwd' = procCwd
    /\ cwd' = c
    /\ procCwd' = os_chdir(procCwd, c)
    /\ pc' = "listdir"
    /\ err' = "none"
    /\ outcome' = "running"
    /\ touched' = {}
    /\ listed' = <<>>
    /\ idx' = 0
    /\ UNCHANGED <<fs, out, calls>>
    /\ UNCHANGED <<planned, notGatherer>>

\* __call__ up to the try: reset the list, remember the working directory,
\* enter cwd
Call(c) ==
    /\ pc = "idle"
    /\ calls < planned
    /\ old_list' = final_list
    /\ old_out' = out
    /\ final_list' = <<>>
    /\ current_cwd' = procCwd
    /\ cwd' = c
    /\ procCwd' = os_chdir(procCwd, c)
    /\ pc' = "listdir"
    /\ err' = "none"
    /\ outcome' = "running"
    /\ touched' = {}
    /\ listed' = <<>>
    /\ idx' = 0
    /\ UNCHANGED <<fs, out, calls>>
    /\ UNCHANGED <<planned, notGatherer>>

\* os.chdir(cwd) raises before the try is entered: the exception leaves
\* __call__
CallChdirRaises(c) ==
    /\ pc = "idle"
    /\ calls < planned
    /\ old_list' = final_list
    /\ old_out' = out
    /\ final_list' = <<>>
    /\ current_cwd' = procCwd
    /\ cwd' = c
    /\ pc' = "idle"
    /\ err' = "chdir"
    /\ outcome' = "raised"
    /\ touched' = {}
    /\ listed' = <<>>
    /\ idx' = 0
    /\ calls' = calls + 1
    /\ UNCHANGED <<fs, out, procCwd>>
    /\ UNCHANGED <<planned, notGatherer>>

\* os.listdir() at the head of gather_content
ListDir ==
    /\ pc = "listdir"
    /\ listed' = Listing
    /\ idx' = 1
    /\ pc' = "gather"
    /\ UNCHANGED <<fs, out, procCwd, final_list, old_list, old_out, cwd, current_cwd,
                   err, outcome, touched, calls>>
    /\ UNCHANGED <<planned, notGatherer>>

ListDirRaises ==
    /\ pc = "listdir"
    /\ err' = "listdir"
    /\ pc' = "except"
    /\ UNCHANGED <<fs, out, procCwd, final_list, old_list, old_out, cwd, current_cwd,
                   listed, idx, outcome, touched, calls>>
    /\ UNCHANGED <<planned, notGatherer>>

\* one iteration of the for loop of gather_content
GatherChild ==
    /\ pc = "gather"
    /\ idx <= Len(listed)
    /\ LET i == listed[idx]
       IN  IF IsReserved(i)
           THEN final_list' = final_list
           ELSE final_list' = Append(final_list,
                    EntryHead(cwd, i) @@ EntryTail(cwd, i, KindOf(i), TextOf(i)))
    /\ idx' = idx + 1
    /\ UNCHANGED <<fs, out, procCwd, old_list, old_out, pc, cwd, current_cwd, listed,
                   err, outcome, touched, calls>>
    /\ UNCHANGED <<planned, notGatherer>>

\* the iteration in which open() or f.read() of a .txt child raises: the
\* Entry was appended and holds its first two keys only
GatherChildRaises ==
    /\ pc = "gather"
    /\ idx <= Len(listed)
    /\ ~IsReserved(listed[idx])
    /\ ReadsFile(listed[idx], KindOf(listed[idx]))
    /\ final_list' = Append(final_list, EntryHead(cwd, listed[idx]))
    /\ err' = "read"
    /\ pc' = "except"
    /\ UNCHANGED <<fs, out, procCwd, old_list, old_out, cwd, current_cwd, listed, idx,
                   outcome, touched, calls>>
    /\ UNCHANGED <<planned, notGatherer>>

\* the loop is exhausted: gather_content returns
GatherDone ==
    /\ pc = "gather"
    /\ idx > Len(listed)
    /\ pc' = "dump_json"
    /\ UNCHANGED <<fs, out, procCwd, final_list, old_list, old_out, cwd, current_cwd,
                   listed, idx, err, outcome, touched, calls>>
    /\ UNCHANGED <<planned, notGatherer>>

\* dump_json: open(json_name, "w") and write the rendering of final_list
DumpJson ==
    /\ pc = "dump_json"
    /\ out' = [out EXCEPT !.pretty = [state |-> "written", data |-> final_list]]
    /\ touched' = touched \cup {json_name}
    /\ pc' = "dump_minified_json"
    /\ UNCHANGED <<fs, procCwd, final_list, old_list, old_out, cwd, current_cwd, listed,
                   idx, err, outcome, calls>>
    /\ UNCHANGED <<planned, notGatherer>>

\* open(json_name, "w") raises: the file is left as it was
DumpJsonOpenRaises ==
    /\ pc = "dump_json"
    /\ err' = "dump_json"
    /\ pc' = "except"
    /\ UNCHANGED <<fs, out, procCwd, final_list, old_list, old_out, cwd, current_cwd,
                   listed, idx, outcome, touched, calls>>
    /\ UNCHANGED <<planned, notGatherer>>

\* f.write raises after open truncated the file
DumpJsonWriteRaises ==
    /\ pc = "dump_json"
    /\ out' = [out EXCEPT !.pretty = [state |-> "truncated", data |-> <<>>]]
    /\ touched' = touched \cup {json_name}
    /\ err' = "dump_json"
    /\ pc' = "except"
    /\ UNCHANGED <<fs, procCwd, final_list, old_list, old_out, cwd, current_cwd, listed,
                   idx, outcome, calls>>
    /\ UNCHANGED <<planned, notGatherer>>

\* dump_minified_json
DumpMinifiedJson ==
    /\ pc = "dump_minified_json"
    /\ out' = [out EXCEPT !.min = [state |-> "written", data |-> final_list]]
    /\ touched' = touched \cup {minified_json_name}
    /\ pc' = "finally"
    /\ UNCHANGED <<fs, procCwd, final_list, old_list, old_out, cwd, current_cwd, listed,
                   idx, err, outcome, calls>>
    /\ UNCHANGED <<planned, notGatherer>>

DumpMinifiedJsonOpenRaises ==
    /\ pc = "dump_minified_json"
    /\ err' = "dump_minified_json"
    /\ pc' = "except"
    /\ UNCHANGED <<fs, out, procCwd, final_list, old_list, old_out, cwd, current_cwd,
                   listed, idx, outcome, touched, calls>>
    /\ UNCHANGED <<planned, notGatherer>>

DumpMinifiedJsonWriteRaises ==
    /\ pc = "dump_minified_json"
    /\ out' = [out EXCEPT !.min = [state |-> "truncated", data |-> <<>>]]
    /\ touched' = touched \cup {minified_json_name}
    /\ err' = "dump_minified_json"
    /\ pc' = "except"
    /\ UNCHANGED <<fs, procCwd, final_list, old_list, old_out, cwd, current_cwd, listed,
                   idx, outcome, calls>>
    /\ UNCHANGED <<planned, notGatherer>>

\* Except as a handler inside gather_content would be: the failure is
\* logged and the call goes on to the dumps
Except_GoesOn ==
    /\ pc = "except"
    /\ pc' = IF err \in {"listdir", "read"} THEN "dump_json" ELSE "finally"
    /\ UNCHANGED <<fs, out, procCwd, final_list, old_list, old_out, cwd,
                   current_cwd, listed, idx, err, outcome, touched, calls>>
    /\ UNCHANGED <<planned, notGatherer>>

\* Except as a handler that lets the failures of the dumps through: the
\* finally clause runs and the exception leaves __call__
Except_DumpsPropagate ==
    /\ pc = "except"
    /\ IF err \in {"dump_json", "dump_minified_json"}
       THEN /\ procCwd' = current_cwd
            /\ pc' = "idle"
            /\ outcome' = "raised"
            /\ calls' = calls + 1
       ELSE /\ pc' = "finally"
            /\ UNCHANGED <<procCwd, outcome, calls>>
    /\ UNCHANGED <<fs, out, final_list, old_list, old_out, cwd, current_cwd,
                   listed, idx, err, touched>>
    /\ UNCHANGED <<planned, notGatherer>>

\* except Exception as e: print(...)
Except ==
    /\ pc = "except"
    /\ pc' = "finally"
    /\ UNCHANGED <<fs, out, procCwd, final_list, old_list, old_out, cwd, current_cwd,
                   listed, idx, err, outcome, touched, calls>>
    /\ UNCHANGED <<planned, notGatherer>>

\* Finally with the restoring chdir placed after the try block instead of
\* in its finally clause: it is skipped when an exception was handled
Finally_RestoreOnSuccess ==
    /\ pc = "finally"
    /\ procCwd' = IF err = "none" THEN current_cwd ELSE procCwd
    /\ pc' = "idle"
    /\ outcome' = "returned"
    /\ calls' = calls + 1
    /\ UNCHANGED <<fs, out, final_list, old_list, old_out, cwd, current_cwd,
                   listed, idx, err, touched>>
    /\ UNCHANGED <<planned, notGatherer>>

\* finally: os.chdir(current_cwd); __call__ returns None
Finally ==
    /\ pc = "finally"
    /\ procCwd' = current_cwd
    /\ pc' = "idle"
    /\ outcome' = "returned"
    /\ calls' = calls + 1
    /\ UNCHANGED <<fs, out, final_list, old_list, old_out, cwd, current_cwd, listed,
                   idx, err, touched>>
    /\ UNCHANGED <<planned, notGatherer>>

Next ==
    \/ \E c \in CwdArgs : Call(c)
    \/ \E c \in CwdArgs : CallChdirRaises(c)
    \/ ListDir
    \/ ListDirRaises
    \/ GatherChild
    \/ GatherChildRaises
    \/ GatherDone
    \/ DumpJson
    \/ DumpJsonOpenRaises
    \/ DumpJsonWriteRaises
    \/ DumpMinifiedJson
    \/ DumpMinifiedJsonOpenRaises
    \/ DumpMinifiedJsonWriteRaises
    \/ Except
    \/ Finally

Spec == Init /\ [][Next]_allVars

\* ------------------------------------------------------------ properties
\* positions of __call__ at which gather_content has returned normally
GatherReturned ==
    /\ outcome \in {"running", "returned"}
    /\ \/ pc \in {"dump_json", "dump_minified_json"}
       \/ /\ pc \in {"except", "finally", "idle"}
          /\ err \in {"none", "dump_json", "dump_minified_json"}

\* the call has ended, normally or by an exception
CallEnded == pc = "idle" /\ outcome \in {"returned", "raised"}

\* an Entry with all four keys
Complete(e) == DOMAIN e = {key1, key2, key3, key4}

\* C1: once gather_content has run over the directory, final_list holds
\* exactly one Entry per listed name other than the two reserved output
\* file names, and no Entry for a reserved name.
C1_OneEntryPerChild ==
    GatherReturned =>
        /\ \A k \in 1..Len(fs) :
              fs[k].name \notin {json_name, minified_json_name} =>
                  Cardinality({j \in 1..Len(final_list) :
                                  final_list[j][key1] = fs[k].name}) = 1
        /\ \A j \in 1..Len(final_list) :
              /\ final_list[j][key1] \notin {json_name, minified_json_name}
              /\ \E k \in 1..Len(fs) : fs[k].name = final_list[j][key1]

\* C1 witness: a directory holding a reserved name and another child has
\* been gathered into a one-Entry list
C1_Witness ==
    /\ GatherReturned
    /\ Len(fs) = 2
    /\ \E k \in 1..2 : fs[k].name = minified_json_name
    /\ Len(final_list) = 1

\* C1 witness of the empty directory is covered by the same invariant; the
\* state below shows it is reached
C1_EmptyDirectoryReached == GatherReturned /\ Len(fs) = 0 /\ final_list = <<>>

\* C2: whenever a call ends (all succeeded, the scan raised, or a dump
\* raised) the process working directory is what it was right before the
\* call.
C2_CwdRestored ==
    CallEnded => procCwd = current_cwd /\ procCwd = StartDir

\* C2 witness: a call in which a dump raised has ended
C2_Witness ==
    /\ CallEnded
    /\ err = "dump_json"
    /\ cwd = <<"o">>
    /\ procCwd = StartDir

\* C3: an exception raised while scanning (listing the directory or
\* reading a child) is caught: the call returns without raising and
\* neither output file is written or modified by that call.
C3_ScanFailureCaught ==
    err \in {"listdir", "read"} =>
        /\ outcome # "raised"
        /\ out = old_out
        /\ touched = {}
        /\ pc \in {"except", "finally", "idle"}

\* C3 witness: a call whose read of a child raised has returned
C3_Witness ==
    /\ CallEnded
    /\ err = "read"
    /\ outcome = "returned"
    /\ Len(final_list) = 2

\* C4 as stated: a failure to write the pretty or the minified output file
\* is not caught inside the gatherer and reaches the caller as an error.
C4_DumpFailurePropagates ==
    (CallEnded /\ err \in {"dump_json", "dump_minified_json"}) =>
        outcome = "raised"

\* C4 as the code has it: a failure to write the pretty or the minified
\* output file is caught by the handler of __call__ and the call returns
\* normally; no error reaches the caller.
C4_DumpFailureCaught ==
    (CallEnded /\ err \in {"dump_json", "dump_minified_json"}) =>
        outcome = "returned"

\* C4 witness: a call whose minified dump raised has ended
C4_Witness ==
    /\ CallEnded
    /\ err = "dump_minified_json"
    /\ out.pretty.state = "written"

\* the list is the complete Entry list of the directory
CompleteList ==
    /\ \A j \in 1..Len(final_list) : Complete(final_list[j])
    /\ Len(final_list) =
          Cardinality({k \in 1..Len(fs) :
                          fs[k].name \notin {json_name, minified_json_name}})

\* C5 as stated: after a call the caller sees either the complete Entry
\* list with both output files written, or a failed call that left the
\* list as it was (no partial list, no partially filled Entry).
C5_AllOrNothing ==
    CallEnded =>
        \/ /\ err = "none"
           /\ CompleteList
           /\ touched = {json_name, minified_json_name}
           /\ out.pretty.state = "written"
           /\ out.min.state = "written"
        \/ /\ err # "none"
           /\ final_list = old_list

\* the regular-file children with a JSON extension
IsJsonFile(i) ==
    /\ KindOf(i) = "file"
    /\ ~endswith(i, <<".","t","x","t">>)
    /\ endswith(i, <<".","j","s","o","n">>) \/ endswith(i, <<".","j","s","o","n","c">>)

\* C6 as stated: a regular file named *.json or *.jsonc whose content is
\* well-formed JSON gets an Entry of type "json" whose content is the
\* parsed value of the file.
C6_JsonFileParsed ==
    \A j \in 1..Len(final_list) :
        LET e == final_list[j]
        IN  (Complete(e) /\ IsJsonFile(e[key1]) /\ JsonLoads(TextOf(e[key1])).ok) =>
                /\ e[key3] = "json"
                /\ e[key2] = JsonLoads(TextOf(e[key1])).value

\* the Entry under construction when the scan raised
RaisedAt == listed[idx]

\* C7 as stated: a regular file named *.json or *.jsonc that cannot be
\* parsed gets type "path" and content basename(directory) + separator +
\* name; the failure never raises and never aborts the scan.
C7_BadJsonIsPath ==
    /\ \A j \in 1..Len(final_list) :
          LET e == final_list[j]
          IN  (IsJsonFile(e[key1]) /\ ~JsonLoads(TextOf(e[key1])).ok) =>
                  /\ Complete(e)
                  /\ e[key3] = "path"
                  /\ e[key2] = os_path_basename(cwd) \o <<sep>> \o e[key1]
    /\ err = "read" => ~IsJsonFile(RaisedAt)
    /\ GatherReturned =>
          \A k \in 1..Len(fs) : \A m \in (k + 1)..Len(fs) :
              (IsJsonFile(fs[k].name) /\ fs[m].name \notin ReservedNames) =>
                  \E j \in 1..Len(final_list) : final_list[j][key1] = fs[m].name

\* C7 amended: as C7, with the content being os.path.join(basename(directory),
\* name): basename + separator + name when the basename is not empty, the
\* bare name when it is empty (a directory path ending in a separator).
C7_BadJsonIsJoinedPath ==
    /\ \A j \in 1..Len(final_list) :
          LET e == final_list[j]
              base == os_path_basename(cwd)
          IN  (IsJsonFile(e[key1]) /\ ~JsonLoads(TextOf(e[key1])).ok) =>
                  /\ Complete(e)
                  /\ e[key3] = "path"
                  /\ e[key2] = IF base = <<>> THEN e[key1]
                               ELSE base \o <<sep>> \o e[key1]
    /\ err = "read" => ~IsJsonFile(RaisedAt)
    /\ GatherReturned =>
          \A k \in 1..Len(fs) : \A m \in (k + 1)..Len(fs) :
              (IsJsonFile(fs[k].name) /\ fs[m].name \notin ReservedNames) =>
                  \E j \in 1..Len(final_list) : final_list[j][key1] = fs[m].name

\* C7 witness: an unparsable .json file has its Entry and the child
\* listed after it has one too
C7_Witness ==
    /\ Len(final_list) = 2
    /\ final_list[1][key1] = N_json
    /\ KindOf(N_json) = "file"
    /\ TextOf(N_json) = T_lines
    /\ Complete(final_list[2])
    /\ cwd = <<"o","/">>

\* the type the claim gives a child of this kind and name
TypeByKindAndSuffix(kind, i) ==
    IF kind = "dir" THEN "dir"
    ELSE IF kind = "other" THEN "Unknown"
    ELSE IF endswith(i, <<".","t","x","t">>) THEN "file"
    ELSE "path"

\* the name has an extension other than .txt, .json, .jsonc
OtherExtension(i) ==
    /\ ~endswith(i, <<".","t","x","t">>)
    /\ ~endswith(i, <<".","j","s","o","n">>)
    /\ ~endswith(i, <<".","j","s","o","n","c">>)

\* C8 as stated: the type depends on the kind and the name suffix only,
\* the kind first: a directory is "dir" with empty content whatever its
\* name, a regular *.txt file is "file", a regular file of another
\* extension is "path" with content basename(directory) + separator + name.
C8_TypeByKindAndSuffix ==
    \A j \in 1..Len(final_list) :
        LET e == final_list[j]
            i == e[key1]
        IN  Complete(e) =>
                /\ e[key3] = TypeByKindAndSuffix(KindOf(i), i)
                /\ KindOf(i) = "dir" => e[key2] = <<>>
                /\ (KindOf(i) = "file" /\ OtherExtension(i)) =>
                       e[key2] = os_path_basename(cwd) \o <<sep>> \o i

\* C8 amended: as C8, with the content of the "path" Entry being
\* os.path.join(basename(directory), name): the bare name when the
\* basename is empty.
C8_TypeByKindAndSuffixJoined ==
    \A j \in 1..Len(final_list) :
        LET e == final_list[j]
            i == e[key1]
            base == os_path_basename(cwd)
        IN  Complete(e) =>
                /\ e[key3] = TypeByKindAndSuffix(KindOf(i), i)
                /\ KindOf(i) = "dir" => e[key2] = <<>>
                /\ (KindOf(i) = "file" /\ OtherExtension(i)) =>
                       e[key2] = IF base = <<>> THEN i ELSE base \o <<sep>> \o i

\* C8 witness: a directory named a.txt and a regular file d.bin both have
\* their Entries
C8_Witness ==
    /\ Len(final_list) = 2
    /\ \E j \in 1..2 : final_list[j][key1] = N_txt /\ KindOf(N_txt) = "dir"
    /\ \E j \in 1..2 : final_list[j][key1] = N_bin /\ KindOf(N_bin) = "file"
    /\ Complete(final_list[2])

\* C9 as stated: a child that is neither a directory nor a regular file
\* gets the type spelled unknown and empty content.
C9_OtherIsUnknown ==
    \A j \in 1..Len(final_list) :
        LET e == final_list[j]
        IN  (Complete(e) /\ KindOf(e[key1]) = "other") =>
                /\ e[key3] = "unknown"
                /\ e[key2] = <<>>

\* number of newline characters of a text
Newlines(t) == Cardinality({k \in 1..Len(t) : t[k] = "\n"})

\* the lines joined again with a newline between neighbours
RECURSIVE JoinLines(_)
JoinLines(ls) ==
    IF Len(ls) = 1 THEN ls[1]
    ELSE ls[1] \o <<"\n">> \o JoinLines(Tail(ls))

\* C10: a regular *.txt file with text T gets type "file" and content T
\* split on the newline character, in order: (newlines of T) + 1 pieces,
\* none holding a newline, that joined by newlines give T back; "a\nb\nc"
\* gives [a, b, c], the empty file one empty string, a text ending in a
\* newline a trailing empty string.
C10_TxtSplitOnNewline ==
    \A j \in 1..Len(final_list) :
        LET e == final_list[j]
            i == e[key1]
            T == TextOf(i)
        IN  (Complete(e) /\ KindOf(i) = "file" /\ endswith(i, <<".","t","x","t">>)) =>
                /\ e[key3] = "file"
                /\ Len(e[key2]) = Newlines(T) + 1
                /\ \A k \in 1..Len(e[key2]) : Newlines(e[key2][k]) = 0
                /\ JoinLines(e[key2]) = T
                /\ T = T_lines => e[key2] = << <<"a">>, <<"b">>, <<"c">> >>
                /\ T = T_empty => e[key2] = << <<>> >>
                /\ T = T_num => e[key2] = << <<"1">>, <<>> >>

\* C10 witness: the Entry of a .txt file whose text ends in a newline
C10_Witness ==
    \E j \in 1..Len(final_list) :
        /\ Complete(final_list[j])
        /\ final_list[j][key1] = N_txt
        /\ final_list[j][key3] = "file"
        /\ TextOf(N_txt) = T_num
        /\ Len(final_list[j][key2]) = 2

\* ------------------------------------------------- the instance called again
\* The children of the directory that is scanned more than once.
RerunChildren ==
    {[name |-> N_txt, kind |-> "file", text |-> T_lines],
     [name |-> N_json, kind |-> "file", text |-> T_num],
     [name |-> N_bin, kind |-> "file", text |-> T_empty],
     [name |-> N_bin, kind |-> "other", text |-> T_empty],
     [name |-> json_name, kind |-> "file", text |-> T_empty],
     [name |-> minified_json_name, kind |-> "file", text |-> T_empty]}

RerunDirectories ==
    {d \in UNION {[1..n -> RerunChildren] : n \in 0..MaxChildren} :
        \A j, k \in 1..Len(d) : d[j].name = d[k].name => j = k}

\* One instance on which the driver makes one call more than MaxCalls, as
\* img_to_ascii_art.py does with GJMI.
InitRerun ==
    /\ fs \in RerunDirectories
    /\ out = [pretty |-> IF \E k \in 1..Len(fs) : fs[k].name = json_name
                         THEN [state |-> "old", data |-> <<>>] ELSE Absent,
              min |-> IF \E k \in 1..Len(fs) : fs[k].name = minified_json_name
                      THEN [state |-> "old", data |-> <<>>] ELSE Absent]
    /\ procCwd = StartDir
    /\ final_list = <<>>
    /\ old_list = <<>>
    /\ old_out = out
    /\ pc = "idle"
    /\ cwd = <<>>
    /\ current_cwd = <<>>
    /\ listed = <<>>
    /\ idx = 0
    /\ err = "none"
    /\ outcome = "none"
    /\ touched = {}
    /\ calls = 0
    /\ planned = MaxCalls + 1
    /\ ReorganiserIdle
    /\ DownloaderIdle
    /\ ConverterIdle

SpecRerun == InitRerun /\ [][Next]_allVars

\* the names the running call has made an Entry for: the non-reserved names
\* among those the loop has reached
NamesReached ==
    LET upto == IF err = "read" THEN idx ELSE idx - 1
    IN  SelectSeq(SubSeq(listed, 1, upto), LAMBDA n : n \notin ReservedNames)

\* C11: over any sequence of calls on one instance, final_list holds only
\* Entries made by the running (or last) call: one per name that call has
\* reached, in order, each with that call's parent directory; nothing of an
\* earlier call is carried over.
C11_ListBuiltFresh ==
    outcome # "none" =>
        /\ Len(final_list) = Len(NamesReached)
        /\ \A j \in 1..Len(final_list) :
              /\ final_list[j][key1] = NamesReached[j]
              /\ final_list[j][key4] = os_path_basename(cwd)

\* C11 witness: a second call, on another spelling of the directory, has
\* ended after an earlier call left a non-empty list
C11_Witness ==
    /\ CallEnded
    /\ calls = 2
    /\ Len(old_list) = 2
    /\ Len(final_list) = 2
    /\ final_list[1][key4] # old_list[1][key4]

\* the list the call before this one left is a complete list made under
\* the same directory name
OldListComplete ==
    /\ calls >= 1
    /\ Len(old_list) =
          Cardinality({k \in 1..Len(fs) : fs[k].name \notin ReservedNames})
    /\ \A j \in 1..Len(old_list) :
          /\ Complete(old_list[j])
          /\ old_list[j][key4] = os_path_basename(cwd)

\* C12: two runs in succession on a directory whose children did not
\* change (the first run's two output files apart) give identical Entry
\* lists.
C12_RerunSameList ==
    (GatherReturned /\ OldListComplete) => final_list = old_list

\* C12 witness: the second run has ended; the first run created the
\* minified output file, which the second run found in the listing
C12_Witness ==
    /\ CallEnded
    /\ calls = 2
    /\ err = "none"
    /\ OldListComplete
    /\ Len(final_list) = 2
    /\ Len(listed) = Len(fs) + 2

\* ------------------------------------------------------------ the two dumps
\* A JSON value is <<"s", chars>>, <<"a", items>> or <<"o", pairs>>, a pair
\* being <<key chars, value>>.

\* the characters of the keys and of the type values
KeyChars(k) ==
    IF k = key1 THEN <<"f","i","l","e","N","a","m","e">>
    ELSE IF k = key2 THEN <<"f","i","l","e","C","o","n","t","e","n","t">>
    ELSE IF k = key3 THEN <<"f","i","l","e","T","y","p","e">>
    ELSE <<"f","i","l","e","P","a","r","e","n","t","D","i","r","e","c","t","o","r","y">>
TypeChars(t) ==
    IF t = "dir" THEN <<"d","i","r">>
    ELSE IF t = "file" THEN <<"f","i","l","e">>
    ELSE IF t = "json" THEN <<"j","s","o","n">>
    ELSE IF t = "path" THEN <<"p","a","t","h">>
    ELSE <<"U","n","k","n","o","w","n">>

\* sort_keys=True: the keys of an Entry in alphabetical order
SortedKeys == <<key2, key1, key4, key3>>

\* the JSON value json.dumps sees in one Entry and in the list
JsonOfEntry(e) ==
    LET ks == SelectSeq(SortedKeys, LAMBDA k : k \in DOMAIN e)
        val(k) ==
            IF k = key3 THEN <<"s", TypeChars(e[k])>>
            ELSE IF k = key2 /\ key3 \in DOMAIN e /\ e[key3] = "file"
            THEN <<"a", [n \in 1..Len(e[k]) |-> <<"s", e[k][n] >>] >>
            ELSE <<"s", e[k]>>
    IN  <<"o", [n \in 1..Len(ks) |-> <<KeyChars(ks[n]), val(ks[n]) >>] >>
JsonOfList(l) == <<"a", [n \in 1..Len(l) |-> JsonOfEntry(l[n])] >>

\* a string literal: quotes, with the escapes of ensure_ascii for the
\* characters of the model
RECURSIVE EncodeChars(_)
EncodeChars(cs) ==
    IF cs = <<>> THEN <<>>
    ELSE (IF Head(cs) = "\"" THEN <<"\\", "\"">>
          ELSE IF Head(cs) = "\\" THEN <<"\\", "\\">>
          ELSE IF Head(cs) = "\n" THEN <<"\\", "n">>
          ELSE <<Head(cs)>>) \o EncodeChars(Tail(cs))
EncodeString(cs) == <<"\"">> \o EncodeChars(cs) \o <<"\"">>

\* newline and indentation of a nesting level; nothing when indent is None
\* (written -1)
RECURSIVE Spaces(_)
Spaces(n) == IF n <= 0 THEN <<>> ELSE <<" ">> \o Spaces(n - 1)
NewlineIndent(indent, level) ==
    IF indent < 0 THEN <<>> ELSE <<"\n">> \o Spaces(indent * level)

\* json.dumps(value, indent=indent, separators=(isep, ksep)) as the
\* encoder writes it, the value standing at a nesting level
RECURSIVE Dumps(_, _, _, _, _), DumpsItems(_, _, _, _, _), DumpsPairs(_, _, _, _, _)
Dumps(v, indent, isep, ksep, level) ==
    IF v[1] = "s" THEN EncodeString(v[2])
    ELSE IF v[1] = "a"
    THEN IF v[2] = <<>> THEN <<"[", "]">>
         ELSE <<"[">> \o NewlineIndent(indent, level + 1)
              \o DumpsItems(v[2], indent, isep, ksep, level + 1)
              \o NewlineIndent(indent, level) \o <<"]">>
    ELSE IF v[2] = <<>> THEN <<"{", "}">>
         ELSE <<"{">> \o NewlineIndent(indent, level + 1)
              \o DumpsPairs(v[2], indent, isep, ksep, level + 1)
              \o NewlineIndent(indent, level) \o <<"}">>
DumpsItems(items, indent, isep, ksep, level) ==
    Dumps(items[1], indent, isep, ksep, level)
    \o (IF Len(items) = 1 THEN <<>>
        ELSE isep \o NewlineIndent(indent, level)
             \o DumpsItems(Tail(items), indent, isep, ksep, level))
DumpsPairs(pairs, indent, isep, ksep, level) ==
    EncodeString(pairs[1][1]) \o ksep
    \o Dumps(pairs[1][2], indent, isep, ksep, level)
    \o (IF Len(pairs) = 1 THEN <<>>
        ELSE isep \o NewlineIndent(indent, level)
             \o DumpsPairs(Tail(pairs), indent, isep, ksep, level))

\* separators of dump_json with the comma left out
PrettyItemSeparator_NoComma == <<" ">>

\* separators=(" ,", ": ") and indent=4 of dump_json
PrettyItemSeparator == <<" ", ",">>

PrettyKeySeparator == <<":", " ">>

PrettyIndent == 4

\* separators=(",", ":") and indent=None of dump_minified_json
MinItemSeparator == <<",">>

MinKeySeparator == <<":">>

\* the text dump_json writes for a list, and the text dump_minified_json
\* writes
PrettyText(l) ==
    Dumps(JsonOfList(l), PrettyIndent, PrettyItemSeparator, PrettyKeySeparator, 0)
MinifiedText(l) ==
    Dumps(JsonOfList(l), 0 - 1, MinItemSeparator, MinKeySeparator, 0)

\* json.loads on such a text: strings, arrays and objects with whitespace
\* between the tokens.  A result is [ok, val, next], next being the place
\* after the value.
NoParse == [ok |-> FALSE, val |-> <<>>, next |-> 0]
SkipWhitespace(t, p) ==
    LET solid == {k \in p..Len(t) : t[k] \notin JsonWhitespace}
    IN  IF solid = {} THEN Len(t) + 1
        ELSE CHOOSE k \in solid : \A j \in solid : k <= j

RECURSIVE ParseString(_, _, _)
ParseString(t, p, acc) ==
    IF p > Len(t) THEN NoParse
    ELSE IF t[p] = "\"" THEN [ok |-> TRUE, val |-> <<"s", acc>>, next |-> p + 1]
    ELSE IF t[p] = "\\"
    THEN IF p + 1 > Len(t) THEN NoParse
         ELSE IF t[p + 1] = "\"" THEN ParseString(t, p + 2, Append(acc, "\""))
         ELSE IF t[p + 1] = "\\" THEN ParseString(t, p + 2, Append(acc, "\\"))
         ELSE IF t[p + 1] = "n" THEN ParseString(t, p + 2, Append(acc, "\n"))
         ELSE NoParse
    ELSE IF t[p] = "\n" THEN NoParse
    ELSE ParseString(t, p + 1, Append(acc, t[p]))

RECURSIVE ParseValue(_, _), ParseItems(_, _, _), ParsePairs(_, _, _)
ParseValue(t, p) ==
    LET q == SkipWhitespace(t, p)
    IN  IF q > Len(t) THEN NoParse
        ELSE IF t[q] = "\"" THEN ParseString(t, q + 1, <<>>)
        ELSE IF t[q] = "["
        THEN LET r == SkipWhitespace(t, q + 1)
             IN  IF r <= Len(t) /\ t[r] = "]"
                 THEN [ok |-> TRUE, val |-> <<"a", <<>>>>, next |-> r + 1]
                 ELSE ParseItems(t, r, <<>>)
        ELSE IF t[q] = "{"
        THEN LET r == SkipWhitespace(t, q + 1)
             IN  IF r <= Len(t) /\ t[r] = "}"
                 THEN [ok |-> TRUE, val |-> <<"o", <<>>>>, next |-> r + 1]
                 ELSE ParsePairs(t, r, <<>>)
        ELSE NoParse
ParseItems(t, p, acc) ==
    LET v == ParseValue(t, p)
        r == SkipWhitespace(t, v.next)
    IN  IF ~v.ok \/ r > Len(t) THEN NoParse
        ELSE IF t[r] = "," THEN ParseItems(t, r + 1, Append(acc, v.val))
        ELSE IF t[r] = "]"
        THEN [ok |-> TRUE, val |-> <<"a", Append(acc, v.val)>>, next |-> r + 1]
        ELSE NoParse
ParsePairs(t, p, acc) ==
    LET q == SkipWhitespace(t, p)
        k == IF q <= Len(t) /\ t[q] = "\"" THEN ParseString(t, q + 1, <<>>) ELSE NoParse
        c == SkipWhitespace(t, k.next)
        v == IF k.ok /\ c <= Len(t) /\ t[c] = ":" THEN ParseValue(t, c + 1) ELSE NoParse
        r == SkipWhitespace(t, v.next)
    IN  IF ~v.ok \/ r > Len(t) THEN NoParse
        ELSE IF t[r] = "," THEN ParsePairs(t, r + 1, Append(acc, <<k.val[2], v.val>>))
        ELSE IF t[r] = "}"
        THEN [ok |-> TRUE, val |-> <<"o", Append(acc, <<k.val[2], v.val>>)>>, next |-> r + 1]
        ELSE NoParse

\* json.loads(text): one value and nothing but whitespace after it
JsonParse(t) ==
    LET v == ParseValue(t, 1)
    IN  IF v.ok /\ SkipWhitespace(t, v.next) > Len(t) THEN v ELSE NoParse

\* The directories whose lists are dumped: every fileType, a name and a
\* text that need escapes.
N_quote == <<"e","\"","\\">>
T_quote == <<"\"","\n","\\">>
DumpChildren ==
    {[name |-> N_txt, kind |-> "file", text |-> T_lines],
     [name |-> N_txt, kind |-> "file", text |-> T_quote],
     [name |-> N_json, kind |-> "file", text |-> T_num],
     [name |-> N_json, kind |-> "dir", text |-> T_empty],
     [name |-> N_bin, kind |-> "other", text |-> T_empty],
     [name |-> N_quote, kind |-> "file", text |-> T_empty]}

DumpDirectories ==
    {d \in UNION {[1..n -> DumpChildren] : n \in 0..MaxChildren} :
        \A j, k \in 1..Len(d) : d[j].name = d[k].name => j = k}

\* __call__ at the moment gather_content has returned the list of the
\* directory
InitDump ==
    /\ fs \in DumpDirectories
    /\ cwd \in CwdArgs
    /\ out = [pretty |-> Absent, min |-> Absent]
    /\ procCwd = os_chdir(StartDir, cwd)
    /\ final_list = [j \in 1..Len(fs) |->
            EntryHead(cwd, fs[j].name)
            @@ EntryTail(cwd, fs[j].name, fs[j].kind, fs[j].text)]
    /\ old_list = <<>>
    /\ old_out = out
    /\ pc = "dump_json"
    /\ current_cwd = StartDir
    /\ listed = [j \in 1..Len(fs) |-> fs[j].name]
    /\ idx = Len(fs) + 1
    /\ err = "none"
    /\ outcome = "running"
    /\ touched = {}
    /\ calls = 0
    /\ planned = MaxCalls
    /\ ReorganiserIdle
    /\ DownloaderIdle
    /\ ConverterIdle

NextDump ==
    \/ DumpJson
    \/ DumpMinifiedJson
    \/ Finally

SpecDump == InitDump /\ [][NextDump]_allVars

\* C13: whenever both files were written from a list, the text of
\* files.json and the text of files.min.json both parse, and parse to the
\* same value: the array of the Entries of the list in order, each with
\* its keys and values.
C13_DumpsParseEqual ==
    (out.pretty.state = "written" /\ out.min.state = "written") =>
        LET p == JsonParse(PrettyText(out.pretty.data))
            m == JsonParse(MinifiedText(out.min.data))
        IN  /\ p.ok
            /\ m.ok
            /\ p.val = m.val
            /\ p.val = JsonOfList(final_list)

C13_Witness ==
    /\ pc = "finally"
    /\ out.pretty.state = "written"
    /\ out.min.state = "written"
    /\ Len(final_list) = 2
    /\ final_list[1][key3] = "file"
    /\ Len(final_list[1][key2]) = 3
    /\ final_list[2][key1] = N_quote
    /\ PrettyText(out.pretty.data) # MinifiedText(out.min.data)

\* -------------------------------------------------------- json_reorganiser
ERROR == 1
SUCCESS == 0

\* os.O_RDONLY and os.O_RDWR, the modes check_file hands to os.access
O_RDONLY == 0
O_RDWR == 2

\* the gatherer not started
GathererIdle ==
    /\ fs = <<>>
    /\ out = [pretty |-> Absent, min |-> Absent]
    /\ procCwd = StartDir
    /\ final_list = <<>>
    /\ old_list = <<>>
    /\ old_out = out
    /\ pc = "idle"
    /\ cwd = <<>>
    /\ current_cwd = <<>>
    /\ listed = <<>>
    /\ idx = 0
    /\ err = "none"
    /\ outcome = "none"
    /\ touched = {}
    /\ calls = 0
    /\ planned = 0

\* str.join
RECURSIVE join(_, _)
join(c, parts) ==
    IF parts = <<>> THEN <<>>
    ELSE IF Len(parts) = 1 THEN parts[1]
    ELSE parts[1] \o c \o join(c, Tail(parts))

\* str.lower on the letters of the arguments
LowerChar(ch) ==
    IF ch = "H" THEN "h" ELSE IF ch = "E" THEN "e"
    ELSE IF ch = "L" THEN "l" ELSE IF ch = "P" THEN "p" ELSE ch
Lower(a) == [k \in 1..Len(a) |-> LowerChar(a[k])]

\* the tuple of line 224
HelpFlags ==
    {<<"-","h">>, <<"-","-","h">>, <<"/","h">>,
     <<"-","h","e","l","p">>, <<"-","-","h","e","l","p">>, <<"/","h","e","l","p">>,
     <<"-","?">>, <<"-","-","?">>, <<"/","?">>}

\* Source file names: a stem, possibly empty, followed by at most MaxExts
\* extensions; given bare or behind a directory with either separator.
MaxExts == 2
Stems == {<<>>, <<"a">>}
Exts == {<<".","j","s","o","n">>, <<".","m","i","n">>}
FileNames ==
    {st \o join(<<>>, es) : st \in Stems, es \in UNION {[1..n -> Exts] : n \in 0..MaxExts}}
    \ {<<>>}
Prefixes == {<<>>, <<"d","/">>, <<"d","\\">>}
SourcePaths == {pre \o n : pre \in Prefixes, n \in FileNames}

\* What the path names: nothing that is a regular file, or a regular file
\* with its permissions and what it holds: a JSON object, the document
\* null, or text that is not JSON.
Docs == {"object", "null", "invalid"}
Files ==
    {NoFile} \cup
    {[isfile |-> TRUE, readable |-> r, writable |-> w, doc |-> d] :
        r \in BOOLEAN, w \in BOOLEAN, d \in Docs}

\* sys.argv[1:]: nothing, a help flag in some letter case, a path, the
\* empty string, two arguments
HelpArgs ==
    HelpFlags \cup {<<"-","H">>, <<"-","-","H","E","L","P">>, <<"/","H","e","l","p">>}
Argvs ==
    {<<>>} \cup {<<a>> : a \in HelpArgs \cup SourcePaths \cup {<<>>}}
    \cup {<<a, a>> : a \in {<<"d","/","a",".","j","s","o","n">>}}

\* os.path.isfile and os.access on the path: the mode is a mask of R_OK = 4,
\* W_OK = 2 and X_OK = 1, and the mask 0 is F_OK, the test for existence
os_path_isfile(p, f) == p # <<>> /\ f.isfile
os_access(p, f, mode) ==
    /\ p # <<>> /\ f.isfile
    /\ ((mode \div 4) % 2 = 1 => f.readable)
    /\ ((mode \div 2) % 2 = 1 => f.writable)

check_file(p, f) ==
    IF os_path_isfile(p, f) /\ (os_access(p, f, O_RDONLY) \/ os_access(p, f, O_RDWR))
    THEN p ELSE <<>>

\* The body the three name functions share, the suffix being what they
\* differ in.  [ok |-> FALSE] is file_path[-1] raising IndexError on the
\* empty list.
OutputName(source_file, suffix) ==
    LET has(ch) == \E k \in 1..Len(source_file) : source_file[k] = ch
        connector == IF has("/") THEN <<"/">> ELSE IF has("\\") THEN <<"\\">> ELSE <<>>
        file_path == IF connector # <<>> THEN split(source_file, connector[1]) ELSE <<>>
    IN  IF file_path = <<>> THEN [ok |-> FALSE, name |-> <<>>]
        ELSE LET last == file_path[Len(file_path)]
                 dotted == \E k \in 1..Len(last) : last[k] = "."
                 file_name == IF dotted THEN split(last, ".")[1] ELSE last
                 file_format == IF dotted THEN Tail(split(last, ".")) ELSE <<>>
                 dirs == SubSeq(file_path, 1, Len(file_path) - 1)
                 stem == IF connector # <<>>
                         THEN join(connector, dirs) \o connector \o file_name \o suffix
                         ELSE <<>>
             IN  [ok |-> TRUE,
                  name |-> IF file_name # <<>>
                           THEN stem \o <<".">> \o join(<<".">>, file_format)
                           ELSE stem]

get_output_sorted_file_name(source_file) ==
    OutputName(source_file, <<"_","r","e","o","r","g","a","n","i","s","e","d">>)

get_output_min_file_name(source_file) ==
    OutputName(source_file, <<".","m","i","n">>)

get_output_min_sorted_file_name(source_file) ==
    OutputName(source_file,
               <<"_","r","e","o","r","g","a","n","i","s","e","d",".","m","i","n">>)

\* load_json_file: "None" when open or json.load raised, else what
\* json.load returned, which is None for the document null
load_json_file(f) ==
    IF ~f.readable \/ f.doc = "invalid" THEN "None"
    ELSE IF f.doc = "null" THEN "None"
    ELSE f.doc

\* the three writes of main in their order, and their destinations
DumpSteps == <<"dump_min", "dump_sorted", "dump_min_sorted">>
DumpDest(k) ==
    IF k = 1 THEN r_dest.min ELSE IF k = 2 THEN r_dest.sorted ELSE r_dest.min_sorted

InitReorg ==
    /\ GathererIdle
    /\ DownloaderIdle
    /\ ConverterIdle
    /\ r_pc = "start"
    /\ r_argv \in Argvs
    /\ r_file \in IF Len(r_argv) = 1 /\ r_argv[1] \in SourcePaths THEN Files ELSE {NoFile}
    /\ r_src = <<>>
    /\ r_dest = NoNames
    /\ r_data = "unset"
    /\ r_opened = <<>>
    /\ r_written = <<>>
    /\ r_log = <<>>
    /\ r_ret = <<>>
    /\ r_status = <<>>

\* argc == 1
StartNoArgument ==
    /\ r_pc = "start"
    /\ Len(r_argv) = 0
    /\ r_log' = Append(r_log, "provide")
    /\ r_status' = <<ERROR>>
    /\ r_pc' = "exited"
    /\ UNCHANGED <<r_argv, r_file, r_src, r_dest, r_data, r_opened, r_written, r_ret>>
    /\ UNCHANGED notReorganiser

\* the help branch prints the usage; control then reaches line 237 with
\* src_file still ""
StartHelp ==
    /\ r_pc = "start"
    /\ Len(r_argv) = 1
    /\ Lower(r_argv[1]) \in HelpFlags
    /\ r_log' = Append(r_log, "usage")
    /\ r_pc' = "main"
    /\ UNCHANGED <<r_argv, r_file, r_src, r_dest, r_data, r_opened, r_written, r_ret,
                   r_status>>
    /\ UNCHANGED notReorganiser

\* one argument that is no help flag
StartPath ==
    /\ r_pc = "start"
    /\ Len(r_argv) = 1
    /\ Lower(r_argv[1]) \notin HelpFlags
    /\ r_src' = r_argv[1]
    /\ IF r_argv[1] = <<>>
       THEN /\ r_log' = Append(r_log, "bad_argument")
            /\ r_status' = <<ERROR>>
            /\ r_pc' = "exited"
       ELSE /\ r_pc' = "main"
            /\ UNCHANGED <<r_log, r_status>>
    /\ UNCHANGED <<r_argv, r_file, r_dest, r_data, r_opened, r_written, r_ret>>
    /\ UNCHANGED notReorganiser

\* more than one argument: no branch is taken
StartManyArguments ==
    /\ r_pc = "start"
    /\ Len(r_argv) > 1
    /\ r_pc' = "main"
    /\ UNCHANGED <<r_argv, r_file, r_src, r_dest, r_data, r_opened, r_written, r_log,
                   r_ret, r_status>>
    /\ UNCHANGED notReorganiser

\* main, lines 160-163
CheckFile ==
    /\ r_pc = "main"
    /\ r_src' = check_file(r_src, r_file)
    /\ IF r_src' = <<>>
       THEN /\ r_log' = r_log \o <<"check", "not_a_file">>
            /\ r_ret' = <<ERROR>>
            /\ r_pc' = "return"
       ELSE /\ r_log' = Append(r_log, "check")
            /\ r_pc' = "names"
            /\ UNCHANGED r_ret
    /\ UNCHANGED <<r_argv, r_file, r_dest, r_data, r_opened, r_written, r_status>>
    /\ UNCHANGED notReorganiser

\* lines 164-170
DeriveNames ==
    /\ r_pc = "names"
    /\ get_output_sorted_file_name(r_src).ok
    /\ get_output_min_file_name(r_src).ok
    /\ get_output_min_sorted_file_name(r_src).ok
    /\ r_dest' = [sorted |-> get_output_sorted_file_name(r_src).name,
                  min |-> get_output_min_file_name(r_src).name,
                  min_sorted |-> get_output_min_sorted_file_name(r_src).name]
    /\ r_log' = Append(r_log, "names")
    /\ r_pc' = "load"
    /\ UNCHANGED <<r_argv, r_file, r_src, r_data, r_opened, r_written, r_ret, r_status>>
    /\ UNCHANGED notReorganiser

\* line 164 raises: nothing catches the IndexError, main does not return
DeriveNamesRaises ==
    /\ r_pc = "names"
    /\ ~get_output_sorted_file_name(r_src).ok
    /\ r_log' = Append(r_log, "IndexError")
    /\ r_pc' = "raised"
    /\ UNCHANGED <<r_argv, r_file, r_src, r_dest, r_data, r_opened, r_written, r_ret,
                   r_status>>
    /\ UNCHANGED notReorganiser

\* lines 171-175
LoadJsonFile ==
    /\ r_pc = "load"
    /\ r_data' = load_json_file(r_file)
    /\ IF r_data' = "None"
       THEN /\ r_log' = r_log \o <<"load", "load_failed">>
            /\ r_ret' = <<ERROR>>
            /\ r_pc' = "return"
       ELSE /\ r_log' = Append(r_log, "load")
            /\ r_pc' = DumpSteps[1]
            /\ UNCHANGED r_ret
    /\ UNCHANGED <<r_argv, r_file, r_src, r_dest, r_opened, r_written, r_status>>
    /\ UNCHANGED notReorganiser

\* one of the three writes: open(destination, "w") and json.dump
Dump(k) ==
    /\ r_pc = DumpSteps[k]
    /\ r_opened' = Append(r_opened, DumpDest(k))
    /\ r_written' = Append(r_written, DumpDest(k))
    /\ r_log' = Append(r_log, DumpSteps[k])
    /\ IF k < Len(DumpSteps)
       THEN r_pc' = DumpSteps[k + 1] /\ UNCHANGED r_ret
       ELSE r_pc' = "return" /\ r_ret' = <<SUCCESS>>
    /\ UNCHANGED <<r_argv, r_file, r_src, r_dest, r_data, r_status>>
    /\ UNCHANGED notReorganiser

\* DumpOpenRaises with the return of the handler left out
DumpOpenRaises_GoesOn(k) ==
    /\ r_pc = DumpSteps[k]
    /\ r_log' = r_log \o <<DumpSteps[k], "dump_failed">>
    /\ IF k < Len(DumpSteps)
       THEN r_pc' = DumpSteps[k + 1] /\ UNCHANGED r_ret
       ELSE r_pc' = "return" /\ r_ret' = <<SUCCESS>>
    /\ UNCHANGED <<r_argv, r_file, r_src, r_dest, r_data, r_opened, r_written, r_status>>
    /\ UNCHANGED notReorganiser

\* open raises: the handler prints and returns ERROR
DumpOpenRaises(k) ==
    /\ r_pc = DumpSteps[k]
    /\ r_log' = r_log \o <<DumpSteps[k], "dump_failed">>
    /\ r_ret' = <<ERROR>>
    /\ r_pc' = "return"
    /\ UNCHANGED <<r_argv, r_file, r_src, r_dest, r_data, r_opened, r_written, r_status>>
    /\ UNCHANGED notReorganiser

\* json.dump raises after open created or truncated the destination
DumpWriteRaises(k) ==
    /\ r_pc = DumpSteps[k]
    /\ r_opened' = Append(r_opened, DumpDest(k))
    /\ r_log' = r_log \o <<DumpSteps[k], "dump_failed">>
    /\ r_ret' = <<ERROR>>
    /\ r_pc' = "return"
    /\ UNCHANGED <<r_argv, r_file, r_src, r_dest, r_data, r_written, r_status>>
    /\ UNCHANGED notReorganiser

\* lines 238-239
Exit ==
    /\ r_pc = "return"
    /\ r_log' = Append(r_log, "exiting")
    /\ r_status' = r_ret
    /\ r_pc' = "exited"
    /\ UNCHANGED <<r_argv, r_file, r_src, r_dest, r_data, r_opened, r_written, r_ret>>
    /\ UNCHANGED notReorganiser

NextReorg ==
    \/ StartNoArgument
    \/ StartHelp
    \/ StartPath
    \/ StartManyArguments
    \/ CheckFile
    \/ DeriveNames
    \/ DeriveNamesRaises
    \/ LoadJsonFile
    \/ \E k \in 1..Len(DumpSteps) : Dump(k)
    \/ \E k \in 1..Len(DumpSteps) : DumpOpenRaises(k)
    \/ \E k \in 1..Len(DumpSteps) : DumpWriteRaises(k)
    \/ Exit

SpecReorg == InitReorg /\ [][NextReorg]_allVars

\* ------------------------------------------- properties of json_reorganiser
Logged(e) == \E k \in 1..Len(r_log) : r_log[k] = e

\* the path main was handed
MainArgument ==
    IF Len(r_argv) = 1 /\ Lower(r_argv[1]) \notin HelpFlags THEN r_argv[1] ELSE <<>>

\* C14: once check_file has answered, it returned the path it was given
\* exactly when that path is a regular file the process can read; for
\* anything else, an unreadable file included, it returned "".
C14_CheckFileIffReadable ==
    Logged("check") =>
        /\ r_src \in {MainArgument, <<>>}
        /\ r_src # <<>> <=>
              (os_path_isfile(MainArgument, r_file) /\ r_file.readable)

\* C15: for a source path check_file accepted, a bare file name included,
\* the three name functions return a name and main does not raise.
C15_NamesNeverRaise ==
    (Logged("check") /\ r_src # <<>>) =>
        /\ get_output_sorted_file_name(r_src).ok
        /\ get_output_min_file_name(r_src).ok
        /\ get_output_min_sorted_file_name(r_src).ok
        /\ r_pc # "raised"

\* C16: load_json_file returned None only when reading or parsing failed,
\* and main reports a load failure only then: never for a readable file
\* holding valid JSON, the document null included.
C16_NoneOnlyOnFailure ==
    (r_data = "None" \/ Logged("load_failed")) =>
        (~r_file.readable \/ r_file.doc = "invalid")

\* C17: started with one argument that is a help flag, the program shows
\* the usage and neither runs main nor reports a file error.
C17_HelpOnlyShowsUsage ==
    (Len(r_argv) = 1 /\ Lower(r_argv[1]) \in HelpFlags) =>
        /\ ~Logged("check")
        /\ ~Logged("not_a_file")

\* the steps of main in their order, and the failure messages
MainOrder == <<"check", "names", "load">> \o DumpSteps
Failures == {"not_a_file", "load_failed", "dump_failed"}

\* C18: the steps of main are taken in the fixed order; main returns
\* SUCCESS exactly when the three destinations were written; a return of
\* ERROR follows the one failing step with no step after it; and after a
\* failed check or load no destination was opened.
C18_StepsInOrder ==
    LET steps == SelectSeq(r_log, LAMBDA e : \E k \in 1..Len(MainOrder) : MainOrder[k] = e)
        fails == SelectSeq(r_log, LAMBDA e : e \in Failures)
        body == SelectSeq(r_log, LAMBDA e : e \notin {"usage", "exiting"})
    IN  /\ Len(steps) <= Len(MainOrder)
        /\ steps = SubSeq(MainOrder, 1, Len(steps))
        /\ r_ret # <<>> =>
              /\ r_ret \in {<<SUCCESS>>, <<ERROR>>}
              /\ r_ret = <<SUCCESS>> <=>
                    r_written = <<r_dest.min, r_dest.sorted, r_dest.min_sorted>>
              /\ r_ret = <<SUCCESS>> => fails = <<>>
              /\ r_ret = <<ERROR>> =>
                    /\ Len(fails) = 1
                    /\ body = Append(steps, fails[1])
                    /\ fails[1] \in {"not_a_file", "load_failed"} => r_opened = <<>>
                    /\ fails[1] = "dump_failed" =>
                          /\ Len(r_written) = Len(steps) - 4
                          /\ Len(r_opened) \in {Len(r_written), Len(r_written) + 1}

C18_Witness ==
    /\ r_pc = "exited"
    /\ r_status = <<ERROR>>
    /\ Len(r_written) = 1
    /\ Len(r_opened) = 2

\* C19: for a source path with a separator the three destination names
\* differ from one another and from the source, and main opens no
\* destination that is its source.
C19_DestinationsDistinct ==
    Logged("names") =>
        /\ r_dest.sorted # r_dest.min
        /\ r_dest.sorted # r_dest.min_sorted
        /\ r_dest.min # r_dest.min_sorted
        /\ r_src \notin {r_dest.sorted, r_dest.min, r_dest.min_sorted}
        /\ \A k \in 1..Len(r_opened) : r_opened[k] # r_src

\* ---------------------------------------------------------- download_batch
\* The dictionary urls: at most MaxGroups groups of at most MaxUrls URLs,
\* a URL being named by its place <<group, index>>.
MaxGroups == 2
MaxUrls == 2
UrlLists(g) == {[u \in 1..n |-> <<g, u>>] : n \in 0..MaxUrls}
UrlDicts ==
    UNION {{d \in [1..n -> UNION {UrlLists(g) : g \in 1..n}] :
                \A g \in 1..n : d[g] \in UrlLists(g)} : n \in 0..MaxGroups}

InitDownload ==
    /\ GathererIdle
    /\ ReorganiserIdle
    /\ ConverterIdle
    /\ d_pc = "group"
    /\ d_urls \in UrlDicts
    /\ d_group = 1
    /\ d_url = 0
    /\ d_requests = <<>>
    /\ d_saved = {}
    /\ d_failed = {}

\* the outer loop takes a group: os.makedirs, then the inner loop starts
MakeDirs ==
    /\ d_pc = "group"
    /\ d_group <= Len(d_urls)
    /\ d_url' = 1
    /\ d_pc' = "url"
    /\ UNCHANGED <<d_urls, d_group, d_requests, d_saved, d_failed>>
    /\ UNCHANGED notDownloader

\* os.makedirs raises OSError: nothing catches it
MakeDirsRaises ==
    /\ d_pc = "group"
    /\ d_group <= Len(d_urls)
    /\ d_pc' = "aborted"
    /\ UNCHANGED <<d_urls, d_group, d_url, d_requests, d_saved, d_failed>>
    /\ UNCHANGED notDownloader

\* the inner loop is exhausted
GroupDone ==
    /\ d_pc = "url"
    /\ d_url > Len(d_urls[d_group])
    /\ d_group' = d_group + 1
    /\ d_url' = 0
    /\ d_pc' = "group"
    /\ UNCHANGED <<d_urls, d_requests, d_saved, d_failed>>
    /\ UNCHANGED notDownloader

\* the outer loop is exhausted
LoopDone ==
    /\ d_pc = "group"
    /\ d_group > Len(d_urls)
    /\ d_pc' = "done"
    /\ UNCHANGED <<d_urls, d_group, d_url, d_requests, d_saved, d_failed>>
    /\ UNCHANGED notDownloader

\* one iteration whose request succeeds and whose file is written
Download ==
    /\ d_pc = "url"
    /\ d_url <= Len(d_urls[d_group])
    /\ d_requests' = Append(d_requests, d_urls[d_group][d_url])
    /\ d_saved' = d_saved \cup {d_urls[d_group][d_url]}
    /\ d_url' = d_url + 1
    /\ UNCHANGED <<d_pc, d_urls, d_group, d_failed>>
    /\ UNCHANGED notDownloader

\* RequestRaises without the handler: the exception ends the loops
RequestRaises_Aborts ==
    /\ d_pc = "url"
    /\ d_url <= Len(d_urls[d_group])
    /\ d_requests' = Append(d_requests, d_urls[d_group][d_url])
    /\ d_failed' = d_failed \cup {d_urls[d_group][d_url]}
    /\ d_pc' = "aborted"
    /\ UNCHANGED <<d_urls, d_group, d_url, d_saved>>
    /\ UNCHANGED notDownloader

\* requests.get raises (timeout, connection error) or raise_for_status
\* raises HTTPError: the handler prints and the loop goes on
RequestRaises ==
    /\ d_pc = "url"
    /\ d_url <= Len(d_urls[d_group])
    /\ d_requests' = Append(d_requests, d_urls[d_group][d_url])
    /\ d_failed' = d_failed \cup {d_urls[d_group][d_url]}
    /\ d_url' = d_url + 1
    /\ UNCHANGED <<d_pc, d_urls, d_group, d_saved>>
    /\ UNCHANGED notDownloader

\* the request succeeded and open or f.write raises OSError, which is no
\* RequestException: nothing catches it
SaveRaises ==
    /\ d_pc = "url"
    /\ d_url <= Len(d_urls[d_group])
    /\ d_requests' = Append(d_requests, d_urls[d_group][d_url])
    /\ d_pc' = "aborted"
    /\ UNCHANGED <<d_urls, d_group, d_url, d_saved, d_failed>>
    /\ UNCHANGED notDownloader

NextDownload ==
    \/ MakeDirs
    \/ MakeDirsRaises
    \/ GroupDone
    \/ LoopDone
    \/ Download
    \/ RequestRaises
    \/ SaveRaises

SpecDownload == InitDownload /\ [][NextDownload]_allVars

\* every URL of the dictionary, in the order of the loops, and those that
\* come before a place
AllUrls == join(<<>>, d_urls)
UrlsBefore(g, u) ==
    SelectSeq(AllUrls, LAMBDA p : p[1] < g \/ (p[1] = g /\ p[2] < u))

\* C20: the requests made are the URLs in list order, one request for each
\* place reached; a URL whose request failed has no file; when the loops
\* end every URL was requested, and the loops are never cut short at a
\* URL whose request failed.
C20_SequentialNoRetry ==
    /\ d_pc = "group" => d_requests = UrlsBefore(d_group, 0)
    /\ d_pc = "url" => d_requests = UrlsBefore(d_group, d_url)
    /\ d_pc = "done" => d_requests = AllUrls
    /\ d_pc = "aborted" =>
          /\ Len(d_requests) <= Len(AllUrls)
          /\ d_requests = SubSeq(AllUrls, 1, Len(d_requests))
          /\ <<d_group, d_url>> \notin d_failed
    /\ d_failed \cap d_saved = {}
    /\ d_failed \cup d_saved \subseteq {d_requests[k] : k \in 1..Len(d_requests)}

C20_Witness ==
    /\ d_pc = "done"
    /\ <<1, 1>> \in d_failed
    /\ <<1, 2>> \in d_saved
    /\ <<2, 1>> \in d_saved

\* -------------------------------------------------------- pixels_to_ascii
ASCII_CHARS == <<"@", "#", "S", "%", "?", "*", "+", ";", ":", ",", ".">>

\* list[::-1]
Reversed(l) == [k \in 1..Len(l) |-> l[Len(l) + 1 - k]]

\* CharsFor with invert ignored
CharsFor_NoInvert(invert) == ASCII_CHARS

\* line 34
CharsFor(invert) == IF invert THEN Reversed(ASCII_CHARS) ELSE ASCII_CHARS

\* Lines 34-37.  chars[pixel // 25] is the list indexed from 0; an index
\* past the end raises IndexError, which leaves the function: ok is FALSE.
pixels_to_ascii(image, invert) ==
    LET chars == CharsFor(invert)
    IN  IF \E k \in 1..Len(image) : image[k] \div 25 >= Len(chars)
        THEN [ok |-> FALSE, str |-> <<>>]
        ELSE [ok |-> TRUE,
              str |-> [k \in 1..Len(image) |-> chars[image[k] \div 25 + 1]]]

\* The images handed to pixels_to_ascii are in mode "L" (grayify): every
\* pixel is a byte.  All bytes as a single pixel, and all images of at
\* most MaxPixels pixels over the bytes at the ends of the range and on
\* both sides of a multiple of 25.
MaxPixels == 2
GrayValues == 0..255
GrayEdges == {0, 24, 25, 249, 250, 255}
Images ==
    {<<p>> : p \in GrayValues}
    \cup UNION {[1..n -> GrayEdges] : n \in 0..MaxPixels}

InitAscii ==
    /\ GathererIdle
    /\ ReorganiserIdle
    /\ DownloaderIdle
    /\ a_pc = "call"
    /\ a_image \in Images
    /\ a_invert \in BOOLEAN
    /\ a_out = [ok |-> TRUE, str |-> <<>>]

PixelsToAscii ==
    /\ a_pc = "call"
    /\ a_out' = pixels_to_ascii(a_image, a_invert)
    /\ a_pc' = "returned"
    /\ UNCHANGED <<a_image, a_invert>>
    /\ UNCHANGED notConverter

NextAscii == PixelsToAscii

SpecAscii == InitAscii /\ [][NextAscii]_allVars

\* C21: for pixels in 0..255 the call returns a string with one character
\* per pixel; the character of pixel p is ASCII_CHARS[p // 25], an index
\* within 0..10, and with invert it is ASCII_CHARS[10 - p // 25].
C21_CharAtPixelDiv25 ==
    a_pc = "returned" =>
        /\ a_out.ok
        /\ Len(a_out.str) = Len(a_image)
        /\ \A k \in 1..Len(a_image) :
              LET i == a_image[k] \div 25
              IN  /\ i \in 0..10
                  /\ a_out.str[k] = ASCII_CHARS[(IF a_invert THEN 10 - i ELSE i) + 1]

C21_Witness ==
    /\ a_pc = "returned"
    /\ a_invert
    /\ a_image = <<255, 0>>
    /\ a_out.str = <<"@", ".">>

====
